---- MODULE Spec2Model ----
(***************************************************************************)
(* Model of src/funcs.py: the raster export ladder (ee_export_image,       *)
(* downloadRaster), the raster-to-table conversion at the end of           *)
(* downloadRaster, modelMetrics, and the window derivation of prepImages.  *)
(*                                                                         *)
(* The specifications share the variables; each leaves the variables of    *)
(* the other parts at their initial value:                                 *)
(*   Spec         runs of downloadRaster, one after another, in one        *)
(*                working directory;                                       *)
(*   SpecConvert  the conversion of a decoded raster to the pixel table;   *)
(*   SpecMetrics  modelMetrics on label sequences over 1..5;               *)
(*   SpecWindows  the date arithmetic at the head of prepImages;           *)
(*   SpecBurnSeverity, SpecLandCover  the classification expressions of    *)
(*                prepImages, per pixel;                                   *)
(*   SpecBands    the band order from the assembly in prepImages to the    *)
(*                columns of the table;                                    *)
(*   SpecConcurrent  two calls of downloadRaster at once in one directory. *)
(***************************************************************************)
EXTENDS Integers, Sequences, FiniteSets

(***************************************************************************)
(* Bounds.                                                                 *)
(***************************************************************************)
\* longest list of candidate scales (imgScale) a caller passes
MaxScales == 3

\* the callers of downloadRaster (pipeline runs); each may run again and again
Procs == {1, 2}

VARIABLES
    \* ---- downloadRaster / ee_export_image
    fs,         \* the working directory: raster.tif, raster.zip, raster.parquet
    pc,         \* pc[r]: where run r stands in downloadRaster
    numTries,   \* numTries[r] = len(imgScale)
    i,          \* i[r]: the loop index, 1-based (imgScale[i-1] in the code)
    attempts,   \* attempts[r]: the calls of ee_export_image so far, in order:
                \*   the candidate each was given and how it ended
    bandEnum,   \* bandEnum[r]: how image.bandNames().size().getInfo() ended
    error,      \* error[r]: the message given to st.error, or NoError
    opened,     \* opened[r]: the content rio.open("raster.tif") returned
    wrote,      \* wrote[r]: the files run r created or overwrote in this run
    \* ---- the conversion of the raster to the pixel table (downloadRaster)
    raster,     \* img.read(): the bands, each a sequence of pixels
    cpc,        \* "idle", "decoded", then "persisted" or "raised"
    table,      \* the table given to to_parquet
    \* ---- modelMetrics
    labels,       \* the reference labels
    predictions,  \* the predicted labels
    mpc,          \* "idle", "called", then "returned"
    cmOut,        \* the first value returned: the labelled confusion matrix
    metricsOut,   \* the second value returned: the labelled metrics table
    \* ---- prepImages, lines 206-214
    window,       \* the (start, end) dates the caller supplied
    startDate,    \* the local startDate
    endDate,      \* the local endDate, which the code moves forward
    shiftedDate,  \* the local shiftedDate
    wpc,          \* "idle", "called", then "derived"
    \* ---- prepImages, the two classification expressions (lines 250-274)
    dNBR,         \* one pixel of the dNBR band, in halves (851 is 425.5)
    burnSeverity, \* the pixel of the burnSeverity band computed from it
    bpc,          \* "idle", "computed", then "classified"
    landcover,    \* one pixel of the NLCD landcover band
    lc,           \* the pixel of the landCover band computed from it
    lpc,          \* "idle", "selected", then "classified"
    \* ---- the band order, from prepImages (lines 298-305) to the table
    \*      columns of downloadRaster (lines 397-407)
    source,       \* source[name]: the value one pixel has in the band name
    combined,     \* the bands of the image prepImages assembles, in order
    img,          \* img.read(): the bands of raster.tif by index, names gone
    data,         \* data[val]: the column the table gets under val
    apc           \* "idle", "queried", "assembled", "read", then "tabled"

exportVars == <<fs, pc, numTries, i, attempts, bandEnum, error, opened, wrote>>

convertVars == <<raster, cpc, table>>

metricsVars == <<labels, predictions, mpc, cmOut, metricsOut>>

windowVars == <<window, startDate, endDate, shiftedDate, wpc>>

classVars == <<dNBR, burnSeverity, bpc, landcover, lc, lpc>>

bandVars == <<source, combined, img, data, apc>>

vars == <<exportVars, convertVars, metricsVars, windowVars, classVars, bandVars>>

\* what each part leaves alone
notExport == <<convertVars, metricsVars, windowVars, classVars, bandVars>>

notConvert == <<exportVars, metricsVars, windowVars, classVars, bandVars>>

notMetrics == <<exportVars, convertVars, windowVars, classVars, bandVars>>

notWindows == <<exportVars, convertVars, metricsVars, classVars, bandVars>>

notClass == <<exportVars, convertVars, metricsVars, windowVars, bandVars>>

notBands == <<exportVars, convertVars, metricsVars, windowVars, classVars>>

(***************************************************************************)
(* Files.  A file's content is named by the run and the candidate scale    *)
(* that produced it; by = 0 names an earlier call of downloadRaster.        *)
(***************************************************************************)
NoFile == [kind |-> "none", by |-> 0, scale |-> 0]

Exists(f) == f.kind # "none"

Earlier(f) == IF Exists(f) THEN [f EXCEPT !.by = 0, !.scale = 0] ELSE f

NoError == "none"

NoImageryAvailable == "No suitable Landsat images are available"

ExportExceededLimits == "Fire exceeds total request size"

Resting == {"idle", "stopped", "done", "crashed"}

Failures == {"urlError", "httpError", "connError", "streamError", "corrupt"}

InitExport ==
    /\ fs = [tif |-> NoFile, zip |-> NoFile, parquet |-> NoFile]
    /\ pc = [r \in Procs |-> "idle"]
    /\ numTries = [r \in Procs |-> 0]
    /\ i = [r \in Procs |-> 0]
    /\ attempts = [r \in Procs |-> <<>>]
    /\ bandEnum = [r \in Procs |-> "pending"]
    /\ error = [r \in Procs |-> NoError]
    /\ opened = [r \in Procs |-> NoFile]
    /\ wrote = [r \in Procs |-> {}]

(***************************************************************************)
(* downloadRaster(imgScale, image, geometry) is called by run r while no   *)
(* other call is under way.  Nothing in it clears the working directory:   *)
(* the files of the earlier calls stay, and are now files of an earlier    *)
(* call (by = 0).  The frames of the calls that have returned are gone.    *)
(***************************************************************************)
StartRun(r) ==
    /\ UNCHANGED notExport
    /\ \A q \in Procs : pc[q] \in Resting
    /\ \E n \in 1..MaxScales : numTries' = [q \in Procs |-> IF q = r THEN n ELSE 0]
    /\ fs' = [tif |-> Earlier(fs.tif), zip |-> Earlier(fs.zip),
              parquet |-> Earlier(fs.parquet)]
    /\ pc' = [q \in Procs |-> IF q = r THEN "bands" ELSE "idle"]
    /\ i' = [q \in Procs |-> 0]
    /\ attempts' = [q \in Procs |-> <<>>]
    /\ bandEnum' = [q \in Procs |-> "pending"]
    /\ error' = [q \in Procs |-> NoError]
    /\ opened' = [q \in Procs |-> NoFile]
    /\ wrote' = [q \in Procs |-> {}]

(***************************************************************************)
(* try: image.bandNames().size().getInfo()                                 *)
(* except: st.error(...); st.stop(); return                                *)
(***************************************************************************)
\* the handler without its st.stop() and return: the run goes on into the loop
BandCheckFallsThrough(r) ==
    /\ bandEnum' = [bandEnum EXCEPT ![r] = "failed"]
    /\ error' = [error EXCEPT ![r] = NoImageryAvailable]
    /\ pc' = [pc EXCEPT ![r] = "loop"]
    /\ i' = [i EXCEPT ![r] = 1]

BandCheckFails(r) ==
    /\ bandEnum' = [bandEnum EXCEPT ![r] = "failed"]
    /\ error' = [error EXCEPT ![r] = NoImageryAvailable]
    /\ pc' = [pc EXCEPT ![r] = "stopped"]
    /\ UNCHANGED i

BandCheckPasses(r) ==
    /\ bandEnum' = [bandEnum EXCEPT ![r] = "ok"]
    /\ pc' = [pc EXCEPT ![r] = "loop"]
    /\ i' = [i EXCEPT ![r] = 1]
    /\ UNCHANGED error

BandCheck(r) ==
    /\ UNCHANGED notExport
    /\ pc[r] = "bands"
    /\ \/ BandCheckFails(r)
       \/ BandCheckPasses(r)
    /\ UNCHANGED <<fs, numTries, attempts, opened, wrote>>

(***************************************************************************)
(* for i in range(numTries): the next call of ee_export_image, or the end  *)
(* of the loop.                                                            *)
(***************************************************************************)
LoopHead(r) ==
    /\ UNCHANGED notExport
    /\ pc[r] = "loop"
    /\ pc' = [pc EXCEPT ![r] = IF i[r] <= numTries[r] THEN "url" ELSE "final"]
    /\ UNCHANGED <<fs, numTries, i, attempts, bandEnum, error, opened, wrote>>

\* ee_export_image returned without raising: downloadRaster goes on to line 388
Returned(r, how) ==
    /\ attempts' = [attempts EXCEPT ![r] = Append(@, [scale |-> i[r], how |-> how])]
    /\ pc' = [pc EXCEPT ![r] = "check"]
    /\ UNCHANGED i

\* ee_export_image raised: except Exception: continue
Raised(r, how) ==
    /\ attempts' = [attempts EXCEPT ![r] = Append(@, [scale |-> i[r], how |-> how])]
    /\ pc' = [pc EXCEPT ![r] = "loop"]
    /\ i' = [i EXCEPT ![r] = @ + 1]

(***************************************************************************)
(* url = image.getDownloadURL(params); an exception prints and returns.    *)
(***************************************************************************)
GetUrl(r) ==
    /\ UNCHANGED notExport
    /\ pc[r] = "url"
    /\ \/ Returned(r, "urlError")
       \/ pc' = [pc EXCEPT ![r] = "get"] /\ UNCHANGED <<attempts, i>>
    /\ UNCHANGED <<fs, numTries, bandEnum, error, opened, wrote>>

(***************************************************************************)
(* r = requests.get(url, stream=True).  When the call itself raises, the   *)
(* handler of line 356 reads r, which is unbound, and raises in turn.  A   *)
(* status other than 200 prints and returns.                               *)
(***************************************************************************)
HttpGet(r) ==
    /\ UNCHANGED notExport
    /\ pc[r] = "get"
    /\ \/ Raised(r, "connError")
       \/ Returned(r, "httpError")
       \/ pc' = [pc EXCEPT ![r] = "openzip"] /\ UNCHANGED <<attempts, i>>
    /\ UNCHANGED <<fs, numTries, bandEnum, error, opened, wrote>>

(***************************************************************************)
(* with open(filename_zip, "wb") as fd: raster.zip is created or truncated *)
(***************************************************************************)
OpenZip(r) ==
    /\ UNCHANGED notExport
    /\ pc[r] = "openzip"
    /\ fs' = [fs EXCEPT !.zip = [kind |-> "partial", by |-> r, scale |-> i[r]]]
    /\ wrote' = [wrote EXCEPT ![r] = @ \cup {"raster.zip"}]
    /\ pc' = [pc EXCEPT ![r] = "stream"]
    /\ UNCHANGED <<numTries, i, attempts, bandEnum, error, opened>>

(***************************************************************************)
(* for chunk in r.iter_content(...): fd.write(chunk).  The stream ends     *)
(* with the whole archive on disk (sound or corrupt), or breaks: then the  *)
(* handler of line 356 prints r.json()[...], which either raises (the      *)
(* body is no JSON error document) or prints and returns.  The part of     *)
(* the archive written so far stays on disk.                               *)
(***************************************************************************)
Stream(r) ==
    /\ UNCHANGED notExport
    /\ pc[r] = "stream"
    /\ \/ /\ \E k \in {"archive", "corrupt"} :
                fs' = [fs EXCEPT !.zip = [kind |-> k, by |-> r, scale |-> i[r]]]
          /\ pc' = [pc EXCEPT ![r] = "unzip"]
          /\ UNCHANGED <<attempts, i>>
       \/ Raised(r, "streamError") /\ UNCHANGED fs
       \/ Returned(r, "streamError") /\ UNCHANGED fs
    /\ UNCHANGED <<numTries, bandEnum, error, opened, wrote>>

(***************************************************************************)
(* with zipfile.ZipFile(filename_zip) as z: z.extractall(dirname)          *)
(* A file that is no sound archive raises; the handler prints, and         *)
(* ee_export_image returns with raster.zip still on disk.                  *)
(***************************************************************************)
Unzip(r) ==
    /\ UNCHANGED notExport
    /\ pc[r] = "unzip"
    /\ \/ /\ fs.zip.kind = "archive"
          /\ fs' = [fs EXCEPT !.tif = [kind |-> "raster", by |-> fs.zip.by,
                                        scale |-> fs.zip.scale]]
          /\ wrote' = [wrote EXCEPT ![r] = @ \cup {"raster.tif"}]
          /\ pc' = [pc EXCEPT ![r] = "rmzip"]
          /\ UNCHANGED <<attempts, i>>
       \/ /\ fs.zip.kind # "archive"
          /\ Returned(r, "corrupt")
          /\ UNCHANGED <<fs, wrote>>
    /\ UNCHANGED <<numTries, bandEnum, error, opened>>

(***************************************************************************)
(* os.remove(filename_zip), inside the same try as the extraction          *)
(***************************************************************************)
RemoveZip(r) ==
    /\ UNCHANGED notExport
    /\ pc[r] = "rmzip"
    /\ fs' = [fs EXCEPT !.zip = NoFile]
    /\ Returned(r, "ok")
    /\ UNCHANGED <<numTries, bandEnum, error, opened, wrote>>

(***************************************************************************)
(* if "raster.tif" in os.listdir(): break                                  *)
(***************************************************************************)
Check(r) ==
    /\ UNCHANGED notExport
    /\ pc[r] = "check"
    /\ IF Exists(fs.tif)
          THEN pc' = [pc EXCEPT ![r] = "final"] /\ UNCHANGED i
          ELSE pc' = [pc EXCEPT ![r] = "loop"] /\ i' = [i EXCEPT ![r] = @ + 1]
    /\ UNCHANGED <<fs, numTries, attempts, bandEnum, error, opened, wrote>>

\* line 393 without its test: the run goes on to rio.open in every case
FinalUnchecked(r) ==
    /\ UNCHANGED notExport
    /\ pc[r] = "final"
    /\ pc' = [pc EXCEPT ![r] = "open"]
    /\ UNCHANGED error
    /\ UNCHANGED <<fs, numTries, i, attempts, bandEnum, opened, wrote>>

(***************************************************************************)
(* if "raster.tif" not in os.listdir(): st.error(...); st.stop()           *)
(***************************************************************************)
Final(r) ==
    /\ UNCHANGED notExport
    /\ pc[r] = "final"
    /\ IF ~Exists(fs.tif)
          THEN /\ error' = [error EXCEPT ![r] = ExportExceededLimits]
               /\ pc' = [pc EXCEPT ![r] = "stopped"]
          ELSE /\ pc' = [pc EXCEPT ![r] = "open"]
               /\ UNCHANGED error
    /\ UNCHANGED <<fs, numTries, i, attempts, bandEnum, opened, wrote>>

(***************************************************************************)
(* img = rio.open("raster.tif"); img.read()                                *)
(***************************************************************************)
Open(r) ==
    /\ UNCHANGED notExport
    /\ pc[r] = "open"
    /\ opened' = [opened EXCEPT ![r] = fs.tif]
    /\ pc' = [pc EXCEPT ![r] = "persist"]
    /\ UNCHANGED <<fs, numTries, i, attempts, bandEnum, error, wrote>>

(***************************************************************************)
(* The table is built and df.astype(int).to_parquet("raster.parquet")      *)
(* writes it, unless the cast raises (a band without any valid pixel:      *)
(* see ToTable below).                                                     *)
(***************************************************************************)
Persist(r) ==
    /\ UNCHANGED notExport
    /\ pc[r] = "persist"
    /\ \/ /\ fs' = [fs EXCEPT !.parquet = [kind |-> "table", by |-> opened[r].by,
                                            scale |-> opened[r].scale]]
          /\ wrote' = [wrote EXCEPT ![r] = @ \cup {"raster.parquet"}]
          /\ pc' = [pc EXCEPT ![r] = "done"]
       \/ /\ pc' = [pc EXCEPT ![r] = "crashed"]
          /\ UNCHANGED <<fs, wrote>>
    /\ UNCHANGED <<numTries, i, attempts, bandEnum, error, opened>>

RunStep(r) ==
    \/ BandCheck(r)
    \/ LoopHead(r)
    \/ GetUrl(r)
    \/ HttpGet(r)
    \/ OpenZip(r)
    \/ Stream(r)
    \/ Unzip(r)
    \/ RemoveZip(r)
    \/ Check(r)
    \/ Final(r)
    \/ Open(r)
    \/ Persist(r)

Next ==
    \E r \in Procs :
        \/ StartRun(r)
        \/ RunStep(r)

\* no raster decoded, no table built
NoTable == [burnSeverity |-> <<>>, dNBR |-> <<>>]

IdleConvert ==
    /\ raster = NoTable
    /\ cpc = "idle"
    /\ table = NoTable

\* modelMetrics not called
NoFrame == [index |-> <<>>, columns |-> <<>>, cells |-> <<>>]

IdleMetrics ==
    /\ labels = <<>>
    /\ predictions = <<>>
    /\ mpc = "idle"
    /\ cmOut = NoFrame
    /\ metricsOut = NoFrame

\* prepImages not called
NoDate == [year |-> 0, month |-> 0, day |-> 0]

IdleWindows ==
    /\ window = [start |-> NoDate, end |-> NoDate]
    /\ startDate = NoDate
    /\ endDate = NoDate
    /\ shiftedDate = NoDate
    /\ wpc = "idle"

\* no pixel classified
IdleClass ==
    /\ dNBR = 0
    /\ burnSeverity = 0
    /\ bpc = "idle"
    /\ landcover = 0
    /\ lc = 0
    /\ lpc = "idle"

\* no image assembled
IdleBands ==
    /\ source = <<>>
    /\ combined = <<>>
    /\ img = <<>>
    /\ data = <<>>
    /\ apc = "idle"

Init == InitExport /\ IdleConvert /\ IdleMetrics /\ IdleWindows /\ IdleClass /\ IdleBands

Spec == Init /\ [][Next]_vars

(***************************************************************************)
(* Claims about the export ladder, checked under Spec.                     *)
(***************************************************************************)
\* the retry loop of run r is over
LadderOver(r) ==
    \/ pc[r] \in {"final", "open", "persist", "done", "crashed"}
    \/ pc[r] = "stopped" /\ bandEnum[r] = "ok"

\* every candidate of run r was given to ee_export_image, and every call failed
AllCandidatesFailed(r) ==
    /\ Len(attempts[r]) = numTries[r]
    /\ \A k \in 1..Len(attempts[r]) : attempts[r][k].how \in Failures

\* C1: a run in which the export of every candidate scale fails ends with
\* the ExportExceededLimits message, whatever files the directory held at
\* its start; it opens no raster and writes no raster.parquet.
C1_AllFailedEndsExceeded ==
    \A r \in Procs :
        (LadderOver(r) /\ AllCandidatesFailed(r)) =>
            /\ opened[r] = NoFile
            /\ "raster.parquet" \notin wrote[r]
            /\ pc[r] \in {"final", "stopped"}
            /\ pc[r] = "stopped" => error[r] = ExportExceededLimits

\* C2: the candidates are attempted one at a time in list order; after a
\* failed attempt the next candidate is attempted; no candidate is
\* attempted after a success; the raster opened is the one the succeeding
\* attempt produced.
C2_LadderInOrder ==
    \A r \in Procs :
        /\ \A k \in 1..Len(attempts[r]) : attempts[r][k].scale = k
        /\ \A k \in 1..Len(attempts[r]) :
              attempts[r][k].how = "ok" => k = Len(attempts[r])
        /\ LadderOver(r) =>
              \/ Len(attempts[r]) = numTries[r]
              \/ attempts[r][Len(attempts[r])].how = "ok"
        /\ Exists(opened[r]) =>
              /\ attempts[r] # <<>>
              /\ attempts[r][Len(attempts[r])].how = "ok"
              /\ opened[r] = [kind |-> "raster", by |-> r,
                              scale |-> attempts[r][Len(attempts[r])].scale]

\* C3: when the ladder is over, no raster.zip, whole or partial, is on disk.
C3_NoZipLeft ==
    \A r \in Procs : LadderOver(r) => ~Exists(fs.zip)

\* C4: when the band enumeration fails, the run stops at once with the
\* NoImageryAvailable message: no candidate is attempted, no file is
\* written, no raster is opened, ExportExceededLimits is not reported.
C4_BandFailureStopsRun ==
    \A r \in Procs :
        bandEnum[r] = "failed" =>
            /\ pc[r] = "stopped"
            /\ error[r] = NoImageryAvailable
            /\ attempts[r] = <<>>
            /\ wrote[r] = {}
            /\ opened[r] = NoFile

\* a run stopped by the band check in a directory that holds the raster.tif
\* of an earlier call
C4_Witness ==
    \E r \in Procs :
        /\ bandEnum[r] = "failed"
        /\ pc[r] = "stopped"
        /\ Exists(fs.tif)

(***************************************************************************)
(* The conversion of the decoded raster to the pixel table, lines 403-419. *)
(*                                                                         *)
(* A pixel is <<>> (missing, NaN) or <<v>>, v the value in hundredths, so  *)
(* that round(2) is exact.  Two of the 14 columns are modelled: the        *)
(* burnSeverity column, which the repair pass reads, and dNBR, which       *)
(* stands for the 13 columns that only pass through fillna, round and      *)
(* astype(int).                                                            *)
(***************************************************************************)
\* most pixels (height * width) of a raster
MaxPixels == 3

NA == <<>>

IsNA(x) == x = NA

\* the burn-severity classes a raster may hold (0: the expression's mask value)
BsPixels == {NA} \cup {<<100 * c>> : c \in 0..5}

\* values of the other band: -1.50 and 2.75
OtherPixels == {NA, <<-150>>, <<275>>}

RECURSIVE SumTo(_, _)
\* the sum of the values present among col[1..k]
SumTo(col, k) ==
    IF k = 0 THEN 0
    ELSE SumTo(col, k - 1) + (IF IsNA(col[k]) THEN 0 ELSE col[k][1])

CountPresent(col) == Cardinality({k \in DOMAIN col : ~IsNA(col[k])})

\* n / d (d > 0) rounded to the nearest integer, ties to even: numpy's round
RoundHalfEven(n, d) ==
    LET q == n \div d
        rem == n - q * d
    IN  IF 2 * rem < d THEN q
        ELSE IF 2 * rem > d THEN q + 1
        ELSE IF q % 2 = 0 THEN q ELSE q + 1

\* df.mean() of one column: skips the missing values; NaN when none is present
ColMean(col) ==
    IF CountPresent(col) = 0 THEN NA
    ELSE <<RoundHalfEven(SumTo(col, Len(col)), CountPresent(col))>>

\* df.fillna(df.mean()).reset_index(drop=True).round(2), one column
FillNaRound(col) ==
    [k \in DOMAIN col |-> IF IsNA(col[k]) THEN ColMean(col) ELSE col[k]]

\* df["burnSeverity"] <= 0 (False for NaN)
NonPositive(x) == ~IsNA(x) /\ x[1] <= 0

\* num = sum(df["burnSeverity"] <= 0)
NumNonPositive(col) == Cardinality({k \in DOMAIN col : NonPositive(col[k])})

\* df.loc[df["burnSeverity"] <= 0, "burnSeverity"] = imputeValues
Repair(col, imputeValues) ==
    [k \in DOMAIN col |->
        IF NonPositive(col[k])
        THEN <<100 * imputeValues[Cardinality({j \in 1..k : NonPositive(col[j])})]>>
        ELSE col[k]]

\* astype(int) of one value: truncation towards zero
AsInt(x) == IF x[1] >= 0 THEN x[1] \div 100 ELSE -((-x[1]) \div 100)

\* astype(int) raises on a column that still holds NaN
CastRaises(df) ==
    \E c \in DOMAIN df : \E k \in DOMAIN df[c] : IsNA(df[c][k])

InitConvert ==
    /\ InitExport /\ IdleMetrics /\ IdleWindows /\ IdleClass /\ IdleBands
    /\ \E n \in 1..MaxPixels :
          raster \in [burnSeverity : [1..n -> BsPixels], dNBR : [1..n -> OtherPixels]]
    /\ cpc = "decoded"
    /\ table = NoTable

(***************************************************************************)
(* df = pd.DataFrame(data); fillna; the repair of burnSeverity <= 0 with   *)
(* random.sample([1,2,3,4,5], k=1)[0] per pixel; astype(int).to_parquet.   *)
(***************************************************************************)
ToTable ==
    /\ cpc = "decoded"
    /\ LET df == [c \in DOMAIN raster |-> FillNaRound(raster[c])]
           num == NumNonPositive(df.burnSeverity)
       IN  \E imputeValues \in [1..num -> 1..5] :
              LET fixed == [df EXCEPT !.burnSeverity = Repair(@, imputeValues)]
              IN  IF CastRaises(fixed)
                  THEN cpc' = "raised" /\ UNCHANGED table
                  ELSE /\ cpc' = "persisted"
                       /\ table' = [c \in DOMAIN fixed |->
                                      [k \in DOMAIN fixed[c] |-> AsInt(fixed[c][k])]]
    /\ UNCHANGED raster
    /\ UNCHANGED notConvert

SpecConvert == InitConvert /\ [][ToTable]_vars

\* C5: after imputation, repair and the integer cast, the persisted
\* burnSeverity column holds only values in 1..5, for every raster content.
C5_BurnSeverityInRange ==
    cpc = "persisted" =>
        \A k \in DOMAIN table.burnSeverity : table.burnSeverity[k] \in 1..5

\* C6: for every decoded raster, also one with a band without any valid
\* pixel, the conversion does not raise, and the persisted table has one
\* integer per pixel in every column (no missing value).
C6_ConvertsWithoutMissing ==
    /\ cpc # "raised"
    /\ cpc = "persisted" =>
          \A c \in DOMAIN table :
              /\ Len(table[c]) = Len(raster[c])
              /\ \A k \in DOMAIN table[c] : table[c][k] \in Int

(***************************************************************************)
(* modelMetrics(labels, predictions), lines 512-538.                       *)
(*                                                                         *)
(* Ratios are kept as percentages in hundredths (5000 is 50.00 %), NA is   *)
(* numpy's nan.                                                            *)
(***************************************************************************)
\* longest label sequence
MaxLabels == 4

\* bsMap of line 528
bsMap == <<"Vegetation Growth", "Unburned", "Low", "Moderate", "High">>

RECURSIVE SortedSeq(_)
\* the elements of a set of numbers in increasing order
SortedSeq(S) ==
    IF S = {} THEN <<>>
    ELSE LET m == CHOOSE x \in S : \A y \in S : x <= y
         IN  <<m>> \o SortedSeq(S \ {m})

\* sklearn's unique_labels: the labels that occur in either argument, sorted
UniqueLabels(y_true, y_pred) ==
    SortedSeq({y_true[t] : t \in DOMAIN y_true} \cup {y_pred[t] : t \in DOMAIN y_pred})

\* sklearn's confusion_matrix(y_true, y_pred) with labels=None: one row
\* and one column per label that occurs, C[a][b] the number of samples
\* of the a-th label predicted as the b-th
confusion_matrix(y_true, y_pred) ==
    LET ls == UniqueLabels(y_true, y_pred)
    IN  [a \in 1..Len(ls) |-> [b \in 1..Len(ls) |->
            Cardinality({t \in DOMAIN y_true : y_true[t] = ls[a] /\ y_pred[t] = ls[b]})]]

RECURSIVE SumSeq(_, _)
\* s[1] + ... + s[k]
SumSeq(s, k) == IF k = 0 THEN 0 ELSE SumSeq(s, k - 1) + s[k]

\* np.sum(cm, axis = 1)[a]
RowSum(cm, a) == SumSeq(cm[a], Len(cm[a]))

\* np.sum(cm, axis = 0)[b]
ColSum(cm, b) == SumSeq([a \in 1..Len(cm) |-> cm[a][b]], Len(cm))

\* np.round(100 * (num / den), 2); 0 / 0 is nan
Percent(num, den) == IF den = 0 THEN NA ELSE <<RoundHalfEven(10000 * num, den)>>

\* np.round(100*(2*(precision * recall) / (precision + recall)), 2) for class
\* a: nan when a ratio is nan or both are 0, else 2*diag / (row sum + column sum)
F1Percent(cm, a) ==
    IF RowSum(cm, a) = 0 \/ ColSum(cm, a) = 0 \/ cm[a][a] = 0 THEN NA
    ELSE <<RoundHalfEven(20000 * cm[a][a], RowSum(cm, a) + ColSum(cm, a))>>

\* DataFrame.fillna(0), one cell
FillNa0(x) == IF IsNA(x) THEN 0 ELSE x[1]

\* the two frames modelMetrics returns
modelMetrics(y_true, y_pred) ==
    LET cm == confusion_matrix(y_true, y_pred)
        k == Len(cm)
        columns == [c \in 1..k |-> bsMap[c]]
        index == [c \in 1..k |-> bsMap[c]]
    IN  [cm |->
            [index |-> index \o <<"Actual Total">>,
             columns |-> columns \o <<"Predicted Total">>,
             cells |-> [a \in 1..(k + 1) |-> [b \in 1..(k + 1) |->
                 IF a <= k /\ b <= k THEN cm[a][b]
                 ELSE IF a = k + 1 /\ b <= k THEN ColSum(cm, b)
                 ELSE IF a <= k /\ b = k + 1 THEN RowSum(cm, a)
                 ELSE FillNa0(NA)]]],
         metrics |->
            [index |-> index,
             columns |-> <<"Precision (%)", "Recall (%)", "F1 (%)">>,
             cells |-> [a \in 1..k |->
                 <<FillNa0(Percent(cm[a][a], ColSum(cm, a))),
                   FillNa0(Percent(cm[a][a], RowSum(cm, a))),
                   FillNa0(F1Percent(cm, a))>>]]]

\* The matrix counts (reference, predicted) pairs, so the order of the
\* samples does not matter: the references are drawn in non-decreasing order.
InitMetrics ==
    /\ InitExport /\ IdleConvert /\ IdleWindows /\ IdleClass /\ IdleBands
    /\ \E n \in 1..MaxLabels :
          /\ labels \in [1..n -> 1..5]
          /\ \A t \in 1..(n - 1) : labels[t] <= labels[t + 1]
          /\ predictions \in [1..n -> 1..5]
    /\ mpc = "called"
    /\ cmOut = NoFrame
    /\ metricsOut = NoFrame

ModelMetrics ==
    /\ mpc = "called"
    /\ cmOut' = modelMetrics(labels, predictions).cm
    /\ metricsOut' = modelMetrics(labels, predictions).metrics
    /\ mpc' = "returned"
    /\ UNCHANGED <<labels, predictions>>
    /\ UNCHANGED notMetrics

SpecMetrics == InitMetrics /\ [][ModelMetrics]_vars

(***************************************************************************)
(* Claims about modelMetrics, checked under SpecMetrics.                   *)
(***************************************************************************)
Has(s, x) == \E k \in DOMAIN s : s[k] = x

Pos(s, x) == CHOOSE k \in DOMAIN s : s[k] = x

\* the number of samples with reference label a and predicted label b
PairCount(a, b) ==
    Cardinality({t \in DOMAIN labels : labels[t] = a /\ predictions[t] = b})

LabelCount(s, c) == Cardinality({t \in DOMAIN s : s[t] = c})

\* the cell of the returned matrix in the row labelled row, column labelled col
CmCell(row, col) == cmOut.cells[Pos(cmOut.index, row)][Pos(cmOut.columns, col)]

\* column col (1 precision, 2 recall, 3 F1) of the metrics row labelled row
MetricsCell(row, col) == metricsOut.cells[Pos(metricsOut.index, row)][col]

\* C7: the returned matrix and metrics table cover the five classes in
\* order, each row and column labelled with its own class; a class absent
\* from both sequences has precision = recall = F1 = 0; reference
\* [2,2,3,5], predicted [2,3,3,5] gives diagonal 2:1, 3:1, 5:1, recall of
\* class 2 50 %, precision of class 3 50 %, and 0 for class 4.
C7_FiveClassesOwnLabels ==
    mpc = "returned" =>
        /\ cmOut.index = bsMap \o <<"Actual Total">>
        /\ cmOut.columns = bsMap \o <<"Predicted Total">>
        /\ metricsOut.index = bsMap
        /\ \A a, b \in 1..5 : CmCell(bsMap[a], bsMap[b]) = PairCount(a, b)
        /\ \A c \in 1..5 :
              (LabelCount(labels, c) = 0 /\ LabelCount(predictions, c) = 0) =>
                  \A m \in 1..3 : MetricsCell(bsMap[c], m) = 0
        /\ (labels = <<2, 2, 3, 5>> /\ predictions = <<2, 3, 3, 5>>) =>
              /\ CmCell(bsMap[2], bsMap[2]) = 1
              /\ CmCell(bsMap[3], bsMap[3]) = 1
              /\ CmCell(bsMap[5], bsMap[5]) = 1
              /\ MetricsCell(bsMap[2], 2) = 5000
              /\ MetricsCell(bsMap[3], 1) = 5000

\* the entry where the margin labelled margin meets the line of class c
TotalEntry(margin, c) ==
    IF Has(cmOut.index, margin)
    THEN CmCell(margin, bsMap[c])
    ELSE CmCell(bsMap[c], margin)

\* C8: for every class c the 'Actual Total' entry of c is the number of
\* reference labels equal to c, and the 'Predicted Total' entry of c is the
\* number of predicted labels equal to c, also when a class does not occur.
C8_MarginTotals ==
    mpc = "returned" =>
        \A c \in 1..5 :
            /\ Has(cmOut.index, bsMap[c])
            /\ Has(cmOut.columns, bsMap[c])
            /\ TotalEntry("Actual Total", c) = LabelCount(labels, c)
            /\ TotalEntry("Predicted Total", c) = LabelCount(predictions, c)

(***************************************************************************)
(* The window derivation at the head of prepImages, lines 206-214.         *)
(*                                                                         *)
(* A date is a record of year, month and day; date arithmetic goes         *)
(* through the proleptic Gregorian ordinal, as Python's datetime.date      *)
(* does (date + timedelta is fromordinal(toordinal() + days)).             *)
(***************************************************************************)
\* most days between the start and the end a caller supplies
MaxElapsed == 95

Date(y, m, d) == [year |-> y, month |-> m, day |-> d]

\* the start dates drawn: one in mid-year, two whose windows cross the end
\* of a year or the 29th of February
StartDates == {Date(2020, 8, 1), Date(2019, 11, 15), Date(2020, 1, 31)}

IsLeap(y) == (y % 4 = 0 /\ y % 100 # 0) \/ y % 400 = 0

DaysInMonth(y, m) ==
    IF m = 2 THEN (IF IsLeap(y) THEN 29 ELSE 28)
    ELSE IF m \in {4, 6, 9, 11} THEN 30 ELSE 31

\* the days before the 1st of January of year y
DaysBeforeYear(y) ==
    (y - 1) * 365 + ((y - 1) \div 4) - ((y - 1) \div 100) + ((y - 1) \div 400)

RECURSIVE DaysBeforeMonth(_, _)
\* the days of year y before the 1st of month m
DaysBeforeMonth(y, m) ==
    IF m = 1 THEN 0 ELSE DaysBeforeMonth(y, m - 1) + DaysInMonth(y, m - 1)

\* date.toordinal()
toordinal(dt) == DaysBeforeYear(dt.year) + DaysBeforeMonth(dt.year, dt.month) + dt.day

\* date.fromordinal(n)
fromordinal(n) ==
    LET y == CHOOSE yy \in (n \div 366)..(n \div 365 + 1) :
                 DaysBeforeYear(yy) < n /\ n <= DaysBeforeYear(yy + 1)
        rest == n - DaysBeforeYear(y)
        m == CHOOSE mm \in 1..12 :
                 /\ DaysBeforeMonth(y, mm) < rest
                 /\ rest <= DaysBeforeMonth(y, mm) + DaysInMonth(y, mm)
    IN  Date(y, m, rest - DaysBeforeMonth(y, m))

\* dt + timedelta(days=n)
AddDays(dt, n) == fromordinal(toordinal(dt) + n)

\* (b - a).days
DaysBetween(a, b) == toordinal(b) - toordinal(a)

\* date.isoformat(): year, month and day in this order ("YYYY-MM-DD")
isoformat(dt) == <<dt.year, dt.month, dt.day>>

\* ee.Date(str): the date the ISO string names
eeDate(str) == Date(str[1], str[2], str[3])

\* the branch for fewer than 60 days with the 30 days of the branch above it
ShiftWindowShortElse(start, end) ==
    IF DaysBetween(start, end) >= 90
    THEN [shiftedDate |-> eeDate(isoformat(AddDays(end, -60))), endDate |-> AddDays(end, 20)]
    ELSE IF DaysBetween(start, end) >= 60
    THEN [shiftedDate |-> eeDate(isoformat(AddDays(end, -40))), endDate |-> AddDays(end, 30)]
    ELSE [shiftedDate |-> eeDate(isoformat(AddDays(end, 1))), endDate |-> AddDays(end, 30)]

\* the comparisons of lines 206 and 209 with > for >=
ShiftWindowStrict(start, end) ==
    IF DaysBetween(start, end) > 90
    THEN [shiftedDate |-> eeDate(isoformat(AddDays(end, -60))), endDate |-> AddDays(end, 20)]
    ELSE IF DaysBetween(start, end) > 60
    THEN [shiftedDate |-> eeDate(isoformat(AddDays(end, -40))), endDate |-> AddDays(end, 30)]
    ELSE [shiftedDate |-> eeDate(isoformat(AddDays(end, 1))), endDate |-> AddDays(end, 60)]

\* the shifts of lines 207 and 210 taken from startDate instead of endDate
ShiftWindowFromStart(start, end) ==
    IF DaysBetween(start, end) >= 90
    THEN [shiftedDate |-> eeDate(isoformat(AddDays(start, -60))), endDate |-> AddDays(end, 20)]
    ELSE IF DaysBetween(start, end) >= 60
    THEN [shiftedDate |-> eeDate(isoformat(AddDays(start, -40))), endDate |-> AddDays(end, 30)]
    ELSE [shiftedDate |-> eeDate(isoformat(AddDays(end, 1))), endDate |-> AddDays(end, 60)]

\* lines 206-214: the shifted start of the post-fire window and the moved end
ShiftWindow(start, end) ==
    IF DaysBetween(start, end) >= 90
    THEN [shiftedDate |-> eeDate(isoformat(AddDays(end, -60))), endDate |-> AddDays(end, 20)]
    ELSE IF DaysBetween(start, end) >= 60
    THEN [shiftedDate |-> eeDate(isoformat(AddDays(end, -40))), endDate |-> AddDays(end, 30)]
    ELSE [shiftedDate |-> eeDate(isoformat(AddDays(end, 1))), endDate |-> AddDays(end, 60)]

\* prepImages(geometry, startDate, endDate) is called with start < end
InitWindows ==
    /\ InitExport /\ IdleConvert /\ IdleMetrics /\ IdleClass /\ IdleBands
    /\ \E s \in StartDates : \E d \in 1..MaxElapsed :
          window = [start |-> s, end |-> AddDays(s, d)]
    /\ startDate = window.start
    /\ endDate = window.end
    /\ shiftedDate = NoDate
    /\ wpc = "called"

PrepImages ==
    /\ wpc = "called"
    /\ shiftedDate' = ShiftWindow(startDate, endDate).shiftedDate
    /\ endDate' = ShiftWindow(startDate, endDate).endDate
    /\ wpc' = "derived"
    /\ UNCHANGED <<window, startDate>>
    /\ UNCHANGED notWindows

SpecWindows == InitWindows /\ [][PrepImages]_vars

(***************************************************************************)
(* Claims about the window derivation, checked under SpecWindows.          *)
(***************************************************************************)
\* the scenario of C9: start = 2020-08-01, end = 2020-08-20
Scenario == [start |-> Date(2020, 8, 1), end |-> Date(2020, 8, 20)]

\* C9 as stated: the scenario is 19 days long and yields
\* shiftedStart = 2020-08-21 and adjustedEnd = 2020-09-19.
C9_ScenarioAsStated ==
    (wpc = "derived" /\ window = Scenario) =>
        /\ DaysBetween(window.start, window.end) = 19
        /\ shiftedDate = Date(2020, 8, 21)
        /\ endDate = Date(2020, 9, 19)

\* C9 as amended: the scenario is 19 days long, falls in the tier below 60
\* days (the shifted start is the day after the end) and yields
\* shiftedStart = 2020-08-21 and adjustedEnd = 2020-10-19, 60 days after
\* the end.
C9_Scenario ==
    (wpc = "derived" /\ window = Scenario) =>
        /\ DaysBetween(window.start, window.end) = 19
        /\ shiftedDate = Date(2020, 8, 21)
        /\ endDate = Date(2020, 10, 19)
        /\ DaysBetween(window.end, endDate) = 60

C9_Witness == wpc = "derived" /\ window = Scenario

\* a calendar date
IsDate(dt) ==
    /\ dt.month \in 1..12
    /\ dt.day \in 1..DaysInMonth(dt.year, dt.month)

\* C10: with d the days from start to end, d >= 90 gives shiftedStart =
\* end - 60 and adjustedEnd = end + 20; 60 <= d < 90 gives end - 40 and
\* end + 30; d < 60 gives end + 1 and end + 60 (so 59 falls in the last
\* tier, 60 and 89 in the middle one, 90 in the first).
C10_Tiers ==
    wpc = "derived" =>
        LET d == toordinal(window.end) - toordinal(window.start)
            shift == toordinal(shiftedDate) - toordinal(window.end)
            move == toordinal(endDate) - toordinal(window.end)
        IN  /\ IsDate(shiftedDate) /\ IsDate(endDate)
            /\ d >= 90 => shift = -60 /\ move = 20
            /\ (60 <= d /\ d < 90) => shift = -40 /\ move = 30
            /\ d < 60 => shift = 1 /\ move = 60
            /\ d = 59 => shift = 1 /\ move = 60
            /\ d \in {60, 89} => shift = -40 /\ move = 30
            /\ d = 90 => shift = -60 /\ move = 20

\* a window of exactly 90 days, across the 29th of February 2020
C10_Witness ==
    /\ wpc = "derived"
    /\ window.start = Date(2019, 11, 15)
    /\ DaysBetween(window.start, window.end) = 90
    /\ shiftedDate = Date(2019, 12, 15)
    /\ endDate = Date(2020, 3, 4)

\* C11 as stated: the shifted start lies between the start and the end the
\* caller supplied: start <= shiftedStart <= end.
C11_ShiftedWithinWindow ==
    wpc = "derived" =>
        /\ toordinal(window.start) <= toordinal(shiftedDate)
        /\ toordinal(shiftedDate) <= toordinal(window.end)

\* C11 as amended: the shifted start is never before the start and never
\* after the moved end; it is at most the end the caller supplied when the
\* window is 60 days or longer, and the day after that end when the window
\* is shorter than 60 days.
C11_ShiftedStartBounds ==
    wpc = "derived" =>
        LET d == toordinal(window.end) - toordinal(window.start)
        IN  /\ toordinal(window.start) <= toordinal(shiftedDate)
            /\ toordinal(shiftedDate) <= toordinal(endDate)
            /\ d >= 60 => toordinal(shiftedDate) <= toordinal(window.end)
            /\ d < 60 => toordinal(shiftedDate) = toordinal(window.end) + 1

\* a window of 59 days whose shifted start is the day after its end
C11_Witness ==
    /\ wpc = "derived"
    /\ toordinal(window.end) - toordinal(window.start) = 59
    /\ toordinal(shiftedDate) = toordinal(window.end) + 1

(***************************************************************************)
(* The two classification expressions of prepImages, per pixel.            *)
(*                                                                         *)
(* dNBR is a real number: a pixel is kept in halves, so that the values    *)
(* between two thresholds' integers (425.5) are drawn too; Above(x, t) is  *)
(* b('dNBR') > t.  The NLCD landcover codes are integers.                  *)
(***************************************************************************)
\* largest |dNBR| drawn
MaxDNBR == 500

\* largest landcover code drawn (the NLCD codes run from 11 to 95)
MaxLandcover == 100

Above(x, t) == x > 2 * t

AtMost(x, t) == x <= 2 * t

\* line 254 with < for <=: the value -60 falls through to the mask value
BurnSeverityStrictLast(x) ==
    IF Above(x, 425) THEN 5
    ELSE IF Above(x, 225) THEN 4
    ELSE IF Above(x, 100) THEN 3
    ELSE IF Above(x, -60) THEN 2
    ELSE IF x < 2 * (-60) THEN 1
    ELSE 0

\* the expression of lines 250-255
BurnSeverityExpr(x) ==
    IF Above(x, 425) THEN 5
    ELSE IF Above(x, 225) THEN 4
    ELSE IF Above(x, 100) THEN 3
    ELSE IF Above(x, -60) THEN 2
    ELSE IF AtMost(x, -60) THEN 1
    ELSE 0

\* the expression with >= for > in every branch
LandCoverInclusive(v) ==
    IF v >= 90 THEN 1
    ELSE IF v >= 80 THEN 6
    ELSE IF v >= 70 THEN 5
    ELSE IF v >= 50 THEN 4
    ELSE IF v >= 40 THEN 3
    ELSE IF v >= 30 THEN 1
    ELSE IF v >= 20 THEN 2
    ELSE IF v >= 10 THEN 1
    ELSE 0

\* the expression of lines 265-273 (and, for the 2011 layer, 281-289)
LandCoverExpr(v) ==
    IF v > 90 THEN 1
    ELSE IF v > 80 THEN 6
    ELSE IF v > 70 THEN 5
    ELSE IF v > 50 THEN 4
    ELSE IF v > 40 THEN 3
    ELSE IF v > 30 THEN 1
    ELSE IF v > 20 THEN 2
    ELSE IF v > 10 THEN 1
    ELSE 0

\* dNBR = (preFireNBR - postFireNBR) * 1000 has a value at the pixel
InitBurnSeverity ==
    /\ InitExport /\ IdleConvert /\ IdleMetrics /\ IdleWindows /\ IdleBands
    /\ dNBR \in (2 * (-MaxDNBR))..(2 * MaxDNBR)
    /\ burnSeverity = 0
    /\ bpc = "computed"
    /\ landcover = 0
    /\ lc = 0
    /\ lpc = "idle"

\* burnSeverity = dNBR.expression(...)
ClassifyBurnSeverity ==
    /\ bpc = "computed"
    /\ burnSeverity' = BurnSeverityExpr(dNBR)
    /\ bpc' = "classified"
    /\ UNCHANGED <<dNBR, landcover, lc, lpc>>
    /\ UNCHANGED notClass

SpecBurnSeverity == InitBurnSeverity /\ [][ClassifyBurnSeverity]_vars

\* nlcd.select("landcover") has a value at the pixel
InitLandCover ==
    /\ InitExport /\ IdleConvert /\ IdleMetrics /\ IdleWindows /\ IdleBands
    /\ landcover \in 0..MaxLandcover
    /\ lc = 0
    /\ lpc = "selected"
    /\ dNBR = 0
    /\ burnSeverity = 0
    /\ bpc = "idle"

\* lc = nlcd.select("landcover").expression(...)
ClassifyLandCover ==
    /\ lpc = "selected"
    /\ lc' = LandCoverExpr(landcover)
    /\ lpc' = "classified"
    /\ UNCHANGED <<landcover, dNBR, burnSeverity, bpc>>
    /\ UNCHANGED notClass

SpecLandCover == InitLandCover /\ [][ClassifyLandCover]_vars

(***************************************************************************)
(* Claims about the classification expressions, checked under              *)
(* SpecLandCover (C12) and SpecBurnSeverity (C13).                         *)
(***************************************************************************)
\* C12 as stated: the land-cover expression gives a class for every input
\* and is idempotent: applied to its own output it returns that output.
C12_Idempotent ==
    lpc = "classified" =>
        /\ lc \in 0..6
        /\ LandCoverExpr(lc) = lc

\* C12 as amended: the land-cover expression is total, with the classes
\* >90 -> 1, >80 -> 6, >70 -> 5, >50 -> 4, >40 -> 3, >30 -> 1, >20 -> 2,
\* >10 -> 1, else 0; applied to its own output it always returns 0, so it
\* leaves its output unchanged exactly for the inputs of at most 10, and
\* changes every output in 1..6 to 0.
C12_TotalNotIdempotent ==
    lpc = "classified" =>
        /\ lc \in 0..6
        /\ landcover > 90 => lc = 1
        /\ (80 < landcover /\ landcover <= 90) => lc = 6
        /\ (70 < landcover /\ landcover <= 80) => lc = 5
        /\ (50 < landcover /\ landcover <= 70) => lc = 4
        /\ (40 < landcover /\ landcover <= 50) => lc = 3
        /\ (30 < landcover /\ landcover <= 40) => lc = 1
        /\ (20 < landcover /\ landcover <= 30) => lc = 2
        /\ (10 < landcover /\ landcover <= 20) => lc = 1
        /\ landcover <= 10 => lc = 0
        /\ LandCoverExpr(lc) = 0
        /\ (LandCoverExpr(lc) = lc) <=> (landcover <= 10)

\* the NLCD code 42 (evergreen forest) is classified 3, which the
\* expression would turn into 0
C12_Witness ==
    /\ lpc = "classified"
    /\ landcover = 42
    /\ lc = 3
    /\ LandCoverExpr(lc) = 0

\* C13: every dNBR value gets exactly one class in 1..5, the first whose
\* rule matches: >425 -> 5, >225 -> 4, >100 -> 3, >-60 -> 2, else 1; the
\* values 425, 225, 100 and -60 get 4, 3, 2 and 1; the value 0 of the last
\* branch is never produced.
C13_TotalFirstMatch ==
    bpc = "classified" =>
        /\ burnSeverity \in 1..5
        /\ burnSeverity # 0
        /\ burnSeverity = 5 <=> dNBR > 2 * 425
        /\ burnSeverity = 4 <=> (dNBR > 2 * 225 /\ dNBR <= 2 * 425)
        /\ burnSeverity = 3 <=> (dNBR > 2 * 100 /\ dNBR <= 2 * 225)
        /\ burnSeverity = 2 <=> (dNBR > 2 * (-60) /\ dNBR <= 2 * 100)
        /\ burnSeverity = 1 <=> dNBR <= 2 * (-60)
        /\ dNBR = 2 * 425 => burnSeverity = 4
        /\ dNBR = 2 * 225 => burnSeverity = 3
        /\ dNBR = 2 * 100 => burnSeverity = 2
        /\ dNBR = 2 * (-60) => burnSeverity = 1

\* the pixel with dNBR = -60 is classified 1
C13_Witness ==
    /\ bpc = "classified"
    /\ dNBR = 2 * (-60)
    /\ burnSeverity = 1

(***************************************************************************)
(* The band order, from the assembly in prepImages to the columns of the   *)
(* table.  An image is the sequence of its bands, a band a name and the    *)
(* value it has at one pixel.  raster.tif keeps the bands of the exported  *)
(* image by position; img.read() gives them by index, without names.       *)
(***************************************************************************)
\* the values a band may have at the pixel
PixelValues == {0, 1}

\* the bands of a "LANDSAT/LC08/C02/T1_L2" image, in the collection's order
LandsatBands ==
    <<"SR_B1", "SR_B2", "SR_B3", "SR_B4", "SR_B5", "SR_B6", "SR_B7",
      "SR_QA_AEROSOL", "ST_B10", "ST_ATRAN", "ST_CDIST", "ST_DRAD",
      "ST_EMIS", "ST_EMSD", "ST_QA", "ST_TRAD", "ST_URAD", "QA_PIXEL",
      "QA_RADSAT">>

\* the band names the regular expression 'SR_B.' matches
SR_B == {"SR_B1", "SR_B2", "SR_B3", "SR_B4", "SR_B5", "SR_B6", "SR_B7"}

\* the bands of the NLCD image that prepImages reads
NlcdBands == <<"landcover", "impervious", "percent_tree_cover">>

\* the names of the bands that reach the table
BandNames ==
    SR_B \cup {"burnSeverity", "dNBR", "NDVI", "elevation",
               "percent_tree_cover", "landCover", "landCoverViz"}

\* the list of lines 397-399 with burnSeverity and dNBR exchanged
colNamesSwapped ==
    <<"SR_B1", "SR_B2", "SR_B3", "SR_B4", "SR_B5", "SR_B6", "SR_B7",
      "dNBR", "burnSeverity", "NDVI", "elevation",
      "percent_tree_cover", "landCover", "landCoverViz">>

\* the list of lines 397-399
colNames ==
    <<"SR_B1", "SR_B2", "SR_B3", "SR_B4", "SR_B5", "SR_B6", "SR_B7",
      "burnSeverity", "dNBR", "NDVI", "elevation",
      "percent_tree_cover", "landCover", "landCoverViz">>

\* line 401: {index: value for index, value in enumerate(colNames)}
colNamesDict == [index \in 0..(Len(colNames) - 1) |-> colNames[index + 1]]

Band(name, value) == [name |-> name, value |-> value]

\* the value the pixel has in the band name, 0 in a band that the table
\* never gets
ValueOf(name) == IF name \in DOMAIN source THEN source[name] ELSE 0

\* an image with the bands names
Image(names) == [k \in 1..Len(names) |-> Band(names[k], ValueOf(names[k]))]

\* image.select(names): the bands of the image named so, in its order
select(image, names) == SelectSeq(image, LAMBDA b : b.name \in names)

\* image.rename(name), of an image with one band
rename(image, name) == <<Band(name, image[1].value)>>

\* image.addBands(other); no two images here have a band name in common
addBands(image, other) == image \o other

\* lines 298-305
Combine ==
    LET postFireImage == Image(LandsatBands)
        nlcd == Image(NlcdBands)
        burnSev == rename(<<Band("dNBR", source["burnSeverity"])>>, "burnSeverity")
        dNBRImage == rename(<<Band("nd", source["dNBR"])>>, "dNBR")
        ndvi == rename(<<Band("nd", source["NDVI"])>>, "NDVI")
        dem == select(<<Band("elevation", source["elevation"]),
                        Band("num", 0), Band("swb", 0)>>, {"elevation"})
        lcImage == rename(<<Band("landcover", source["landCover"])>>, "landCover")
        lcViz == rename(<<Band("landcover", source["landCoverViz"])>>, "landCoverViz")
        a1 == addBands(select(postFireImage, SR_B), burnSev)
        a2 == addBands(a1, dNBRImage)
        a3 == addBands(a2, ndvi)
        a4 == addBands(a3, dem)
        a5 == addBands(a4, select(nlcd, {"percent_tree_cover"}))
        a6 == addBands(a5, lcImage)
    IN  addBands(a6, lcViz)

\* the images are queried: every band has its value at the pixel
InitBands ==
    /\ InitExport /\ IdleConvert /\ IdleMetrics /\ IdleWindows /\ IdleClass
    /\ source \in [BandNames -> PixelValues]
    /\ combined = <<>>
    /\ img = <<>>
    /\ data = <<>>
    /\ apc = "queried"

\* combined = postFireImage.select('SR_B.').addBands(...)
Assemble ==
    /\ apc = "queried"
    /\ combined' = Combine
    /\ apc' = "assembled"
    /\ UNCHANGED <<source, img, data>>
    /\ UNCHANGED notBands

\* the export and rio.open("raster.tif").read(): band k of the file is
\* band k of the image
ReadRaster ==
    /\ apc = "assembled"
    /\ img' = [k \in 1..Len(combined) |-> combined[k].value]
    /\ apc' = "read"
    /\ UNCHANGED <<source, combined, data>>
    /\ UNCHANGED notBands

\* for index, val in colNames.items(): data[val] = img[index].flatten()
Columns ==
    /\ apc = "read"
    /\ \A index \in DOMAIN colNamesDict : index + 1 \in DOMAIN img
    /\ data' = [val \in {colNamesDict[index] : index \in DOMAIN colNamesDict} |->
                  img[(CHOOSE index \in DOMAIN colNamesDict :
                          colNamesDict[index] = val) + 1]]
    /\ apc' = "tabled"
    /\ UNCHANGED <<source, combined, img>>
    /\ UNCHANGED notBands

NextBands == Assemble \/ ReadRaster \/ Columns

SpecBands == InitBands /\ [][NextBands]_vars

(***************************************************************************)
(* Claim about the band order, checked under SpecBands.                    *)
(***************************************************************************)
\* C14: the image prepImages assembles has 14 bands whose names are, position
\* by position, the column names of downloadRaster, so that the column
\* under the i-th name holds the band assembled at position i, which is
\* the band of that name.
C14_BandOrder ==
    /\ apc \in {"assembled", "read", "tabled"} =>
          /\ Len(combined) = 14
          /\ Len(colNames) = 14
          /\ \A k \in 1..14 : combined[k].name = colNames[k]
    /\ apc = "tabled" =>
          /\ DOMAIN data = BandNames
          /\ \A k \in 1..14 : data[colNames[k]] = combined[k].value
          /\ \A name \in BandNames : data[name] = source[name]

\* a pixel whose dNBR and burnSeverity differ, with each value in its own
\* column
C14_Witness ==
    /\ apc = "tabled"
    /\ source["burnSeverity"] = 0
    /\ source["dNBR"] = 1
    /\ data["burnSeverity"] = 0
    /\ data["dNBR"] = 1

(***************************************************************************)
(* Two calls of downloadRaster at once in one working directory (two       *)
(* sessions of the application served by one process).  Each run is        *)
(* called once, in a directory that holds no file of an earlier call, and  *)
(* takes the steps of RunStep; the steps of the two runs interleave, and   *)
(* both runs read and write the same raster.zip and raster.tif.            *)
(***************************************************************************)
\* most candidate scales of a run that shares the directory
MaxConcurrentScales == 2

\* run r calls downloadRaster while the other run may be under way
CallConcurrently(r) ==
    /\ UNCHANGED notExport
    /\ pc[r] = "idle"
    /\ \E n \in 1..MaxConcurrentScales : numTries' = [numTries EXCEPT ![r] = n]
    /\ pc' = [pc EXCEPT ![r] = "bands"]
    /\ UNCHANGED <<fs, i, attempts, bandEnum, error, opened, wrote>>

NextConcurrent ==
    \E r \in Procs :
        \/ CallConcurrently(r)
        \/ RunStep(r)

SpecConcurrent == Init /\ [][NextConcurrent]_vars

\* run r is past line 393 with a raster.tif to open
PastFinal(r) == pc[r] \in {"open", "persist", "done", "crashed"}

\* no call of ee_export_image by run r extracted a raster.tif
NoOwnRaster(r) == "raster.tif" \notin wrote[r]

\* C15: two runs at once in one directory race on raster.tif: a run none of
\* whose own exports produced raster.tif gets past the check of line 393
\* only by finding the raster.tif the other run extracted, and then opens
\* that file and builds its table from it.
C15_ForeignRaster ==
    \A r \in Procs :
        (PastFinal(r) /\ NoOwnRaster(r)) =>
            /\ \E q \in Procs \ {r} : "raster.tif" \in wrote[q]
            /\ pc[r] \in {"persist", "done", "crashed"} =>
                  /\ opened[r].kind = "raster"
                  /\ opened[r].by # 0
            /\ pc[r] = "done" => "raster.parquet" \in wrote[r]

\* run 1, whose every attempt failed before it wrote any file, has built
\* its table from the raster.tif run 2 downloaded and extracted, while
\* run 2 is still inside its own call
C15_Witness ==
    /\ pc[1] = "done"
    /\ wrote[1] = {"raster.parquet"}
    /\ Len(attempts[1]) >= 1
    /\ \A k \in 1..Len(attempts[1]) : attempts[1][k].how \in Failures
    /\ opened[1].kind = "raster"
    /\ opened[1].by = 2
    /\ "raster.tif" \in wrote[2]
    /\ pc[2] \notin Resting

====
